---- MODULE Spec2Model ----
(***************************************************************************)
(* A model of paper1_code/utils/time_series.py: shift_arrays (the          *)
(* aligner), mean_flatten (the spatial reducer) and remove_seasonality     *)
(* (the Fourier band filter).  Each function is one action that takes the  *)
(* whole call, and each has its own run (SpecShift, SpecMean, SpecFilter)  *)
(* whose initial states draw the arguments; the variables of the other two *)
(* functions rest meanwhile.                                               *)
(*                                                                         *)
(* A DataArray is a record of its time coordinate, its data and its attrs. *)
(* Positions are 0-based in the source and 1-based in TLA+ sequences:      *)
(* source index j is sequence position j + 1.                              *)
(***************************************************************************)
EXTENDS Integers, Sequences, FiniteSets, TLC

VARIABLES
    \* shift_arrays
    arrays,         \* the caller's list of DataArrays
    weighted_ends,  \* in tenths: 10 is 1.0
    ens,            \* the batch override, "None" when absent
    daily,
    custom,
    array,          \* the local list after the loop (lines 48-79)
    stdout,         \* what print() wrote, in order
    ret,            \* the returned list
    pc,             \* "ready", "returned" or "raised" ("off": not this run)
    \* mean_flatten
    m_form,         \* "single": arrays is a DataArray; "list": a list of them
    m_arrays,       \* the DataArrays passed (one for the single form)
    dims_none,      \* the caller passes dims=None
    dims,           \* the caller's list object of axis names
    dims0,          \* that list as the caller built it
    m_calls,        \* one record per completed call, in order
    \* remove_seasonality
    heap,           \* the numpy buffers: heap[b] is the data of buffer b
    f_form,         \* "single": arrays is a DataArray; "list": a list of them
    f_arrays,       \* the caller's DataArrays; each names its buffer
    f_in0,          \* the data of the caller's arrays before the first call
    freq,           \* in hundredths of a cycle per year
    radius,         \* in hundredths of a cycle per year
    plot,
    f_ret,          \* the DataArrays the last call returned
    f_vals,         \* per completed call, the data of the arrays it returned
    f_trace,        \* per filtered array, what lines 257-276 computed
    f_out,          \* what print() wrote, in order
    shown,          \* figures plt.show() displayed
    f_pc            \* "ready", "returned", or the exception raised

shiftVars == <<arrays, weighted_ends, ens, daily, custom, array, stdout, ret, pc>>
meanVars == <<m_form, m_arrays, dims_none, dims, dims0, m_calls>>

filtVars == <<heap, f_form, f_arrays, f_in0, freq, radius, plot, f_ret, f_vals, f_trace,
              f_out, shown, f_pc>>

vars == <<shiftVars, meanVars, filtVars>>

----------------------------------------------------------------------------
(* Bounds of the shift_arrays model.                                       *)

\* length of every input time axis; above 365 so that every table shift fits
TimeLen == 370
\* the second array's time axis starts this many steps after the first's
Offset == 3
\* 0-based index of the one missing value (NaN) an input may hold
HoleIdx == 89
\* the positive caller-supplied shift
CustomShift == 2

NaN == -1

Ensembles == {"ens1", "ens2", "ens3", "ens4", "ens5"}

----------------------------------------------------------------------------
(* shift_arrays                                                            *)

\* the table with the ens3 daily entry one day short
TableShiftShort(case_0, dly) ==
    CASE case_0 = "ens1" -> <<0, FALSE>>
      [] case_0 = "ens2" -> <<IF dly THEN 89 ELSE 3, FALSE>>
      [] case_0 = "ens3" -> <<IF dly THEN 180 ELSE 6, FALSE>>
      [] case_0 = "ens4" -> <<IF dly THEN 273 ELSE 9, FALSE>>
      [] case_0 = "ens5" -> <<IF dly THEN 365 ELSE 12, FALSE>>
      [] OTHER -> <<0, TRUE>>

\* the table whose default branch keeps the ens5 shift
TableShiftFallThrough(case_0, dly) ==
    CASE case_0 = "ens1" -> <<0, FALSE>>
      [] case_0 = "ens2" -> <<IF dly THEN 89 ELSE 3, FALSE>>
      [] case_0 = "ens3" -> <<IF dly THEN 181 ELSE 6, FALSE>>
      [] case_0 = "ens4" -> <<IF dly THEN 273 ELSE 9, FALSE>>
      [] case_0 = "ens5" -> <<IF dly THEN 365 ELSE 12, FALSE>>
      [] OTHER -> <<IF dly THEN 365 ELSE 12, TRUE>>

\* lines 53-74: the match statement; the second component tells whether the
\* default branch printed its message
TableShift(case_0, dly) ==
    CASE case_0 = "ens1" -> <<0, FALSE>>
      [] case_0 = "ens2" -> <<IF dly THEN 89 ELSE 3, FALSE>>
      [] case_0 = "ens3" -> <<IF dly THEN 181 ELSE 6, FALSE>>
      [] case_0 = "ens4" -> <<IF dly THEN 273 ELSE 9, FALSE>>
      [] case_0 = "ens5" -> <<IF dly THEN 365 ELSE 12, FALSE>>
      [] OTHER -> <<0, TRUE>>

\* line 52
Case0(arr, e) == IF e = "None" THEN arr.ensemble ELSE e

\* line 75
CustomOr(shift, cust) == IF cust = 0 THEN shift ELSE cust

\* lines 52-75: the shift of one array
ShiftOf(arr, e, dly, cust) == CustomOr(TableShift(Case0(arr, e), dly)[1], cust)

\* a sequence given by a rule, written out element by element
Concrete(s) == SubSeq(s, 1, Len(s))

Nans(m) == Concrete([p \in 1..m |-> NaN])

Min(a, b) == IF a < b THEN a ELSE b

\* xarray's DataArray.shift(time=k): the data moves k positions towards higher
\* indices (lower ones for k < 0), the vacated positions hold NaN, the
\* coordinate stays in place
XrShift(arr, k) ==
    LET n == Len(arr.data)
    IN [arr EXCEPT !.data =
            IF k >= 0
            THEN Nans(Min(k, n)) \o SubSeq(arr.data, 1, n - k)
            ELSE SubSeq(arr.data, 1 - k, n) \o Nans(Min(-k, n))]

\* the array as a sequence of <<coordinate, value>> points
Points(arr) == [p \in 1..Len(arr.time) |-> <<arr.time[p], arr.data[p]>>]

\* the array restricted to the points sel, a subsequence of its points
FromPoints(arr, sel) ==
    [arr EXCEPT !.time = Concrete([q \in 1..Len(sel) |-> sel[q][1]]),
                !.data = Concrete([q \in 1..Len(sel) |-> sel[q][2]])]

\* xarray's dropna("time")
DropNa(arr) ==
    LET NotNa(pt) == pt[2] # NaN
    IN FromPoints(arr, SelectSeq(Points(arr), NotNa))

\* lines 76-79
ShiftOne(arr, e, dly, cust) ==
    IF arr.isfloat
    THEN DropNa(XrShift(arr, -ShiftOf(arr, e, dly, cust)))
    ELSE XrShift(arr, -ShiftOf(arr, e, dly, cust))

\* lines 51-79: the loop, from element i on
RECURSIVE ShiftLoop(_, _, _, _, _)
ShiftLoop(as, i, e, dly, cust) ==
    IF i > Len(as) THEN <<>>
    ELSE <<ShiftOne(as[i], e, dly, cust)>> \o ShiftLoop(as, i + 1, e, dly, cust)

Coords(arr) == {arr.time[p] : p \in 1..Len(arr.time)}

\* the coordinates that every array from the i-th on holds
RECURSIVE Common(_, _)
Common(as, i) ==
    IF i = Len(as) THEN Coords(as[i]) ELSE Coords(as[i]) \cap Common(as, i + 1)

RECURSIVE Reindex(_, _, _)
Reindex(as, i, common) ==
    IF i > Len(as) THEN <<>>
    ELSE LET InCommon(pt) == pt[1] \in common
         IN <<FromPoints(as[i], SelectSeq(Points(as[i]), InCommon))>>
            \o Reindex(as, i + 1, common)

\* the list returned as the loop left it
AlignNone(as) == as

\* xr.align(*array), join="inner": every array is reindexed to the
\* intersection of the time indexes
Align(as) == Reindex(as, 1, Common(as, 1))

\* the lines print() wrote during the loop, one per unrecognized identifier
RECURSIVE Printed(_, _, _, _)
Printed(as, i, e, dly) ==
    IF i > Len(as) THEN <<>>
    ELSE (IF TableShift(Case0(as[i], e), dly)[2]
          THEN <<[line |-> "Don't know how to shift this array.", at |-> i]>>
          ELSE <<>>) \o Printed(as, i + 1, e, dly)

\* the check with 0.0 rejected
BadWeightStrict(w) == w <= 0 \/ w > 10

\* line 49
BadWeight(w) == w < 0 \/ w > 10

\* lines 48-80, the whole call
shift_arrays ==
    /\ pc = "ready"
    /\ IF BadWeight(weighted_ends)
       THEN /\ pc' = "raised"
            /\ UNCHANGED <<array, stdout, ret>>
       ELSE /\ array' = ShiftLoop(arrays, 1, ens, daily, custom)
            /\ stdout' = Printed(arrays, 1, ens, daily)
            /\ ret' = Align(array')
            /\ pc' = "returned"
    /\ UNCHANGED <<arrays, weighted_ends, ens, daily, custom>>

\* an input array: its axis starts at start, value j of array i is 1000 i + j
MkArray(i, e, start, isfloat, hole) ==
    [ensemble |-> e,
     isfloat |-> isfloat,
     time |-> Concrete([p \in 1..TimeLen |-> start + p - 1]),
     data |-> Concrete([p \in 1..TimeLen |->
                            IF hole /\ p = HoleIdx + 1 THEN NaN ELSE 1000 * i + p - 1])]

Tags == Ensembles \cup {"ens0"}

\* batches of one, two or three arrays over one kind of time axis; the first
\* may hold a NaN, the second may start later, the third starts one step late
Batches ==
    {<<MkArray(1, e, 0, f, h)>> : e \in Tags, f \in BOOLEAN, h \in BOOLEAN}
    \cup
    {<<MkArray(1, e1, 0, f, h), MkArray(2, e2, o, f, FALSE)>> :
        e1 \in Tags, e2 \in Tags, f \in BOOLEAN, h \in BOOLEAN, o \in {0, Offset}}
    \cup
    {<<MkArray(1, e1, 0, f, FALSE), MkArray(2, e2, Offset, f, FALSE), MkArray(3, "ens4", 1, f, FALSE)>> :
        e1 \in Tags, e2 \in Tags, f \in BOOLEAN}

ShiftOff ==
    /\ arrays = <<>> /\ weighted_ends = 10 /\ ens = "None" /\ daily = TRUE /\ custom = 0
    /\ array = <<>> /\ stdout = <<>> /\ ret = <<>> /\ pc = "off"

InitShiftInputs ==
    /\ arrays \in Batches
    /\ weighted_ends \in {-1, 0, 10, 11}
    /\ ens \in {"None", "ens3", "ens9"}
    /\ daily \in BOOLEAN
    /\ custom \in {0, CustomShift, -1}
    /\ array = <<>>
    /\ stdout = <<>>
    /\ ret = <<>>
    /\ pc = "ready"

----------------------------------------------------------------------------
(* mean_flatten.  A DataArray is here its attrs (a set of <<key, value>>   *)
(* pairs), the axes it still has, and how its latitude axis was reduced.   *)

\* successive calls the caller makes with the same arguments
MaxCalls == 2

\* Dataset.assign_attrs: a new array whose attrs are updated with new
AssignAttrs(arr, new) ==
    [arr EXCEPT !.attrs = {kv \in arr.attrs : \A nw \in new : nw[1] # kv[1]} \cup new]

Elems(s) == {s[p] : p \in 1..Len(s)}

\* DataArray.mean(dim=ds) with xarray's default keep_attrs=False: the axes ds
\* are averaged out with equal weights and the result carries no attrs
XrMean(arr, ds) ==
    [attrs |-> {},
     axes |-> arr.axes \ Elems(ds),
     latmean |-> IF "lat" \in Elems(ds) /\ "lat" \in arr.axes THEN "plain" ELSE arr.latmean]

\* lines 83-88: arr.weighted(cos(deg2rad(lat))).mean(lat), which keeps no attrs
LatitudeMean(arr, lat) ==
    [attrs |-> {}, axes |-> arr.axes \ {lat}, latmean |-> "weighted"]

\* list.remove(x): the list without the first occurrence of x
RECURSIVE Remove(_, _)
Remove(s, x) ==
    IF s = <<>> THEN <<>>
    ELSE IF Head(s) = x THEN Tail(s) ELSE <<Head(s)>> \o Remove(Tail(s), x)

\* lines 125-126
DimsArg == IF dims_none THEN <<"lon", "time">> ELSE dims

\* lines 127-134
IncludeLat(ds, lat) == lat \in Elems(ds)

\* lines 135-142: the single-array branch
MeanSingle(arr, ds, include_lat, lat) ==
    LET a1 == IF include_lat THEN AssignAttrs(LatitudeMean(arr, lat), arr.attrs) ELSE arr
        a2 == XrMean(a1, ds)
    IN AssignAttrs(a2, a2.attrs)

\* lines 144-154: one turn of the loop
MeanElement(arr, ds, include_lat, lat) ==
    LET arr_ == IF include_lat THEN AssignAttrs(LatitudeMean(arr, lat), arr.attrs) ELSE arr
    IN AssignAttrs(XrMean(arr_, ds), arr_.attrs)

\* lines 125-155, the whole call (lat keeps its default, "lat")
mean_flatten ==
    /\ Len(m_calls) < MaxCalls
    /\ LET include_lat == IncludeLat(DimsArg, "lat")
           ds == Remove(DimsArg, "lat")
       IN /\ dims' = IF dims_none THEN dims ELSE ds
          /\ m_calls' = Append(m_calls,
                [include_lat |-> include_lat,
                 reduced |-> Elems(ds) \cup (IF include_lat THEN {"lat"} ELSE {}),
                 out |-> IF m_form = "single"
                         THEN <<MeanSingle(m_arrays[1], ds, include_lat, "lat")>>
                         ELSE [i \in 1..Len(m_arrays) |->
                                  MeanElement(m_arrays[i], ds, include_lat, "lat")]])
    /\ UNCHANGED <<m_form, m_arrays, dims_none, dims0>>

AttrSets == {{}, {<<"ensemble", "ens1">>}, {<<"ensemble", "ens2">>, <<"units", "K">>}}

MkGrid(at) == [attrs |-> at, axes |-> {"time", "lat", "lon"}, latmean |-> "none"]

DimsLists ==
    {<<"lon", "time">>, <<"lat", "lon">>, <<"lon", "lat">>, <<"lat", "lon", "time">>,
     <<"lat">>, <<"time">>, <<>>}

MeanOff ==
    /\ m_form = "single" /\ m_arrays = <<>> /\ dims_none = TRUE /\ dims = <<>> /\ dims0 = <<>>
    /\ m_calls = <<>>

InitMeanInputs ==
    /\ m_form \in {"single", "list"}
    /\ m_arrays \in IF m_form = "single"
                    THEN {<<MkGrid(a)>> : a \in AttrSets}
                    ELSE {<<MkGrid(a)>> : a \in AttrSets}
                         \cup {<<MkGrid(a), MkGrid(b)>> : a \in AttrSets, b \in AttrSets}
    /\ dims_none \in BOOLEAN
    /\ dims \in IF dims_none THEN {<<>>} ELSE DimsLists
    /\ dims0 = dims
    /\ m_calls = <<>>

----------------------------------------------------------------------------
(* Exact arithmetic for the Fourier transforms.  A real number is           *)
(* <<a, b, d>>, standing for (a + b * sqrt(D)) / d with d > 0 and the three *)
(* integers coprime; D is 2 for series of length 8 and 3 otherwise, which   *)
(* makes the sines and cosines of every length in Lengths exact.  A complex *)
(* number is <<re, im>>.                                                    *)

Abs(x) == IF x < 0 THEN -x ELSE x

RECURSIVE Gcd(_, _)
Gcd(a, b) == IF b = 0 THEN a ELSE Gcd(b, a % b)

QOver(a, b, d, g) == <<a \div g, b \div g, d \div g>>
QNorm(a, b, d) == QOver(a, b, d, Gcd(Gcd(Abs(a), Abs(b)), d))

QInt(k) == <<k, 0, 1>>
QAdd(x, y) == QNorm(x[1] * y[3] + y[1] * x[3], x[2] * y[3] + y[2] * x[3], x[3] * y[3])
QNeg(x) == <<-x[1], -x[2], x[3]>>
QSub(x, y) == QAdd(x, QNeg(y))
QMul(D, x, y) ==
    QNorm(x[1] * y[1] + D * x[2] * y[2], x[1] * y[2] + x[2] * y[1], x[3] * y[3])
\* x * t / k for integers t and k > 0
QScale(x, t, k) == QNorm(x[1] * t, x[2] * t, x[3] * k)

CAdd(u, v) == <<QAdd(u[1], v[1]), QAdd(u[2], v[2])>>
CSub(u, v) == <<QSub(u[1], v[1]), QSub(u[2], v[2])>>
CScale(u, t, k) == <<QScale(u[1], t, k), QScale(u[2], t, k)>>

\* the square root the numbers of a series of length n are written over
SqrtOf(n) == IF n = 8 THEN 2 ELSE 3

\* cos of ang/24 of a turn, for the angles that are multiples of 30 or of 45
\* degrees (the irrational ones are sqrt(3)/2 and sqrt(2)/2)
CosA(ang) ==
    CASE ang = 0 -> <<1, 0, 1>>
      [] ang \in {2, 22, 3, 21} -> <<0, 1, 2>>
      [] ang \in {4, 20} -> <<1, 0, 2>>
      [] ang \in {6, 18} -> <<0, 0, 1>>
      [] ang \in {8, 16} -> <<-1, 0, 2>>
      [] ang \in {9, 15, 10, 14} -> <<0, -1, 2>>
      [] ang = 12 -> <<-1, 0, 1>>

\* cos and sin of 2 pi t / n, for n a divisor of 24
Cos(n, t) == CosA(((24 \div n) * t) % 24)
Sin(n, t) == CosA(((24 \div n) * t + 18) % 24)

\* the sum of f[lo..hi], f a sequence of reals
RECURSIVE QSum(_, _, _)
QSum(f, lo, hi) == IF lo > hi THEN QInt(0) ELSE QAdd(f[lo], QSum(f, lo + 1, hi))

\* scipy.fft.rfft of the real series x: bins 0 .. n div 2
Rfft(x) ==
    LET n == Len(x)
        D == SqrtOf(n)
    IN [q \in 1..(n \div 2 + 1) |->
          <<QSum([p \in 1..n |-> QMul(D, x[p], Cos(n, (p - 1) * (q - 1)))], 1, n),
            QNeg(QSum([p \in 1..n |-> QMul(D, x[p], Sin(n, (p - 1) * (q - 1)))], 1, n))>>]

\* scipy.fft.irfft of the one-sided spectrum y with no length given: the
\* output has 2 (m - 1) values; the imaginary parts of the first and of the
\* last bin are not read.  D is the square root y is written over.
Irfft(y, D) ==
    LET m == Len(y)
        n == 2 * (m - 1)
    IN [p \in 1..n |->
          QScale(
            QAdd(QAdd(y[1][1], QScale(y[m][1], IF (p - 1) % 2 = 0 THEN 1 ELSE -1, 1)),
                 QScale(QSum([q \in 1..(m - 2) |->
                                QSub(QMul(D, y[q + 1][1], Cos(n, (p - 1) * q)),
                                     QMul(D, y[q + 1][2], Sin(n, (p - 1) * q)))],
                             1, m - 2), 2, 1)),
            1, n)]

\* np.linspace(a, b, k): k values from a to b, both included (a alone for k = 1)
Linspace(a, b, k) ==
    [t \in 1..k |-> IF k = 1 THEN a ELSE CAdd(a, CScale(CSub(b, a), t - 1, k - 1))]

----------------------------------------------------------------------------
(* remove_seasonality.  A float time coordinate is counted in twelfths of  *)
(* a year, a cftime coordinate in days.                                    *)

\* successive applications of the filter, each to the result of the last
MaxPasses == 2

\* the fraction num / den in lowest terms
Ratio(num, den) ==
    [err |-> "none", num |-> num \div Gcd(Abs(num), den), den |-> den \div Gcd(Abs(num), den)]

\* lines 242-256: the sample spacing in years, a fraction
SampleSpacing(arr) ==
    CASE arr.kind = "float" ->
            IF Len(arr.time) < 2 THEN [err |-> "IndexError"]
            ELSE Ratio(arr.time[2] - arr.time[1], 12)
      [] arr.kind = "cftime" ->
            IF Len(arr.time) < 12 THEN [err |-> "IndexError"]
            ELSE Ratio((arr.time[12] - arr.time[11]) * 86400, 3600 * 24 * 365)
      [] OTHER -> [err |-> "TypeError"]

\* lines 259-260: bin k of rfftfreq(n, spacing) is k / (n * spacing); it lies
\* strictly inside (freq - radius, freq + radius)
InBand(k, n, sp, f, r) ==
    /\ k * sp.den * 100 > (f - r) * n * sp.num
    /\ k * sp.den * 100 < (f + r) * n * sp.num

\* line 260: the in-band bins (0-based)
Idx(n, sp, f, r) == {k \in 0..(n \div 2) : InBand(k, n, sp, f, r)}

\* line 262: the builtin any() over the rows of idx is true when some in-band
\* bin index is not zero
AnyIdx(idx) == \E k \in idx : k # 0

SetMin(S) == CHOOSE x \in S : \A y \in S : x <= y
SetMax(S) == CHOOSE x \in S : \A y \in S : x >= y

\* yf[k] for a 0-based k, a negative k counting from the end
PyAt(yf, k) == IF k < 0 THEN yf[Len(yf) + k + 1] ELSE yf[k + 1]

\* lines 263-266: the in-band bins take the values of linear_fill
Fill(yf, idx, linear_fill) ==
    [q \in 1..Len(yf) |->
        IF q - 1 \in idx THEN linear_fill[q - 1 - SetMin(idx) + 1] ELSE yf[q]]

\* lines 262-266: yf_clean
YfClean(yf, idx) ==
    IF AnyIdx(idx)
    THEN Concrete(Fill(yf, idx,
                       Concrete(Linspace(PyAt(yf, SetMin(idx) - 1), PyAt(yf, SetMax(idx) + 1),
                                         Cardinality(idx)))))
    ELSE yf

WarningLines ==
    <<"WARNING: No frequencies were removed!", "HINT: You can also view the before/after">>

\* line 282: arr.data[: len(new_f_clean)] = new_f_clean
Overwrite(data, new_f_clean) ==
    new_f_clean \o SubSeq(data, Len(new_f_clean) + 1, Len(data))

\* lines 276-284: the new contents of the buffer, with what was printed and
\* computed on the way
Filtered(data, idx, yf, yf_clean, new_f_clean) ==
    [err |-> "none",
     data |-> Overwrite(data, new_f_clean),
     lines |-> IF AnyIdx(idx) THEN <<>> ELSE WarningLines,
     seen |-> [n |-> Len(data), idx |-> idx, yf |-> yf, yf_clean |-> yf_clean,
               new_f_clean |-> new_f_clean, after |-> Overwrite(data, new_f_clean),
               warned |-> ~AnyIdx(idx)]]

\* lines 262-276; yf[idx[-1] + 1] of line 264 raises past the last bin
FilterBand(data, idx, yf) ==
    IF AnyIdx(idx) /\ SetMax(idx) + 1 >= Len(yf) THEN [err |-> "IndexError"]
    ELSE Filtered(data, idx, yf, YfClean(yf, idx),
                  Concrete(Irfft(YfClean(yf, idx), SqrtOf(Len(data)))))

\* lines 257-260
FilterSpaced(arr, data, sp, f, r) ==
    IF sp.err # "none" THEN [err |-> sp.err]
    ELSE FilterBand(data, Idx(Len(arr.time), sp, f, r), Concrete(Rfft(data)))

\* lines 242-284 on an array whose buffer holds data: the exception raised, or
\* the new contents of the buffer
FilterFourier(arr, data, f, r) == FilterSpaced(arr, data, SampleSpacing(arr), f, r)

\* the state a call builds up: the buffers, the arrays to return, the output
Acc0 == [err |-> "none", heap |-> heap, out |-> <<>>, lines |-> <<>>, seen |-> <<>>]

\* the call's state after one array: res is what the filter made of buffer b,
\* and the returned arr[:] is a view of buffer b
Stepped(acc, arr, b, res) ==
    IF res.err # "none" THEN [acc EXCEPT !.err = res.err]
    ELSE [acc EXCEPT !.heap = [acc.heap EXCEPT ![b] = res.data],
                     !.out = Append(acc.out, [arr EXCEPT !.buf = b]),
                     !.lines = acc.lines \o res.lines,
                     !.seen = Append(acc.seen, res.seen)]

\* lines 242-284 applied to the array arr held in buffer b
Step(acc, arr, b, f, r) == Stepped(acc, arr, b, FilterFourier(arr, acc.heap[b], f, r))

\* line 208: arrays.copy() is a deep copy, a new buffer; the copy is filtered
FilterSingle(arr, f, r) ==
    Step([Acc0 EXCEPT !.heap = Append(heap, heap[arr.buf])], arr, Len(heap) + 1, f, r)

\* lines 209-213: each array of the list is filtered in its own buffer; an
\* exception ends the loop
RECURSIVE FilterList(_, _, _, _, _)
FilterList(acc, as, i, f, r) ==
    IF i > Len(as) \/ acc.err # "none" THEN acc
    ELSE FilterList(Step(acc, as[i], as[i].buf, f, r), as, i + 1, f, r)

\* the state the call leaves
Leave(acc) ==
    /\ heap' = acc.heap
    /\ f_out' = f_out \o acc.lines
    /\ f_trace' = f_trace \o acc.seen
    /\ shown' = shown + (IF plot THEN Len(acc.seen) ELSE 0)
    /\ IF acc.err = "none"
       THEN /\ f_pc' = "returned"
            /\ f_ret' = acc.out
            /\ f_vals' = Append(f_vals, [i \in 1..Len(acc.out) |-> acc.heap[acc.out[i].buf]])
       ELSE /\ f_pc' = acc.err
            /\ UNCHANGED <<f_ret, f_vals>>

\* lines 207-213 on the argument arg
Call(arg) ==
    Leave(IF f_form = "single" THEN FilterSingle(arg[1], freq, radius)
          ELSE FilterList(Acc0, arg, 1, freq, radius))

\* lines 207-213, the whole call; a further call is given the last result
remove_seasonality ==
    /\ f_pc \in {"ready", "returned"}
    /\ Len(f_vals) < MaxPasses
    /\ Call(IF f_pc = "ready" THEN f_arrays ELSE f_ret)
    /\ UNCHANGED <<f_form, f_arrays, f_in0, freq, radius, plot>>

\* the series lengths whose transforms are exact here
Lengths == {2, 3, 4, 6, 8, 12}

\* the shapes of the input series: value j (0-based) of shape s
Shape(s, j) ==
    CASE s = "flat" -> 1
      [] s = "pulse" -> IF j = 1 THEN 4 ELSE 0
      [] s = "ramp" -> j
      [] s = "wave" -> 3 + 2 * (j % 2) - (j % 3)

MkSeries(n, s) == Concrete([p \in 1..n |-> QInt(Shape(s, p - 1))])

\* a DataArray over buffer b: n samples, step ticks apart
MkTimed(b, n, kind, step) ==
    [buf |-> b, kind |-> kind, time |-> Concrete([p \in 1..n |-> 1850 * 12 + (p - 1) * step]),
     attrs |-> {<<"ensemble", "ens1">>}]

\* the arrays a caller may hold: float axes of every length with a monthly
\* step, cftime axes of 12 (thirty days apart) and of 6, another axis type
Timings == {<<n, "float", 1>> : n \in Lengths}
           \cup {<<12, "cftime", 30>>, <<6, "cftime", 30>>, <<4, "int", 1>>}

FilterOff ==
    /\ heap = <<>> /\ f_form = "single" /\ f_arrays = <<>> /\ f_in0 = <<>> /\ freq = 100
    /\ radius = 1 /\ plot = FALSE /\ f_ret = <<>> /\ f_vals = <<>> /\ f_trace = <<>>
    /\ f_out = <<>> /\ shown = 0 /\ f_pc = "off"

\* a single array, a list of one, or a list of that one and a ramp of four
InitFilterInputs ==
    /\ \E tm \in Timings, s \in {"flat", "pulse", "ramp", "wave"} :
          \E two \in BOOLEAN :
             /\ heap = IF two THEN <<MkSeries(tm[1], s), MkSeries(4, "ramp")>>
                       ELSE <<MkSeries(tm[1], s)>>
             /\ f_arrays = IF two THEN <<MkTimed(1, tm[1], tm[2], tm[3]), MkTimed(2, 4, "float", 1)>>
                           ELSE <<MkTimed(1, tm[1], tm[2], tm[3])>>
             /\ f_form \in IF two THEN {"list"} ELSE {"single", "list"}
    /\ f_in0 = heap
    /\ freq \in {0, 100, 200, 300, 600}
    /\ radius \in {1, 5, 160}
    /\ plot \in BOOLEAN
    /\ f_ret = <<>>
    /\ f_vals = <<>>
    /\ f_trace = <<>>
    /\ f_out = <<>>
    /\ shown = 0
    /\ f_pc = "ready"

----------------------------------------------------------------------------
(* The runs                                                                *)

InitShift == InitShiftInputs /\ MeanOff /\ FilterOff

NextShift == shift_arrays /\ UNCHANGED <<meanVars, filtVars>>

SpecShift == InitShift /\ [][NextShift]_vars

InitMean == InitMeanInputs /\ ShiftOff /\ FilterOff

NextMean == mean_flatten /\ UNCHANGED <<shiftVars, filtVars>>

SpecMean == InitMean /\ [][NextMean]_vars

InitFilter == InitFilterInputs /\ ShiftOff /\ MeanOff

NextFilter == remove_seasonality /\ UNCHANGED <<shiftVars, meanVars>>

SpecFilter == InitFilter /\ [][NextFilter]_vars

----------------------------------------------------------------------------
(* Claims about shift_arrays                                               *)

\* the input axes are consecutive integers, so the position of coordinate t
PosOf(arr, t) == t - arr.time[1] + 1

\* array a, made from input i, holds at every coordinate it retains the value
\* input i held s positions later (NaN where input i has no such position),
\* and every coordinate it retains is the input's own coordinate
ValuesFollow(a, i, s) ==
    \A q \in 1..Len(a.time) :
        LET p == PosOf(arrays[i], a.time[q])
        IN /\ p \in 1..Len(arrays[i].time)
           /\ arrays[i].time[p] = a.time[q]
           /\ a.data[q] = IF p + s \in 1..Len(arrays[i].data)
                          THEN arrays[i].data[p + s] ELSE NaN

\* C1: every array shift_arrays returns has the same time coordinate sequence
\* (same length, same values, same order), whatever the identifiers, the
\* resolution and the custom shift.
C1_AlignedAxes ==
    pc = "returned" =>
        \A i \in 1..Len(ret) : \A j \in 1..Len(ret) : ret[i].time = ret[j].time

\* a batch of two whose shifted axes differ, joined on a non-empty common axis
C1_Witness ==
    /\ pc = "returned"
    /\ Len(ret) = 2
    /\ array[1].time # array[2].time
    /\ Len(ret[1].time) > 0
    /\ ret[1].time = ret[2].time

\* the shift table as the claim states it
ClaimShift(k) ==
    CASE k = "ens1" -> 0 [] k = "ens2" -> 89 [] k = "ens3" -> 181
      [] k = "ens4" -> 273 [] k = "ens5" -> 365

DefaultConfig == ens = "None" /\ daily /\ custom = 0 /\ ~BadWeight(weighted_ends)

\* C2 as stated: under the default configuration the first retained time
\* coordinate of the array tagged k is the original coordinate at index shift_k.
C2_FirstCoordIsShifted ==
    (pc = "returned" /\ DefaultConfig) =>
        \A i \in 1..Len(ret) :
            (arrays[i].ensemble \in Ensembles /\ Len(ret[i].time) > 0) =>
                ret[i].time[1] = arrays[i].time[ClaimShift(arrays[i].ensemble) + 1]

\* C2 amended: under the default configuration the coordinates of the array
\* tagged k do not move; every position it retains keeps its original time
\* coordinate and holds the value the original held shift_k positions later
\* (NaN where there is none), so a retained first position carries the original
\* coordinate at index 0 and the original value at index shift_k.
C2_ValuesMoveCoordsStay ==
    (pc = "returned" /\ DefaultConfig) =>
        \A i \in 1..Len(ret) :
            arrays[i].ensemble \in Ensembles =>
                /\ ValuesFollow(ret[i], i, ClaimShift(arrays[i].ensemble))
                /\ (Len(ret[i].time) > 0 /\ ret[i].time[1] = arrays[i].time[1]) =>
                       ret[i].data[1] = arrays[i].data[ClaimShift(arrays[i].ensemble) + 1]

\* an ens5 array whose first position is retained with the value of index 365
C2_Witness ==
    /\ pc = "returned" /\ DefaultConfig
    /\ arrays[1].ensemble = "ens5"
    /\ Len(ret[1].time) > 0
    /\ ret[1].time[1] = arrays[1].time[1]
    /\ ret[1].data[1] = arrays[1].data[366]
    /\ arrays[1].data[366] # arrays[1].data[1]

\* C8: the call raises exactly when weighted_ends is below 0 or above 1, with
\* nothing shifted and nothing printed; 0.0 and 1.0 are accepted and the call
\* returns one array per input.
C8_WeightCheck ==
    pc # "ready" =>
        /\ pc = "raised" <=> (weighted_ends < 0 \/ weighted_ends > 10)
        /\ pc = "raised" => (stdout = <<>> /\ array = <<>> /\ ret = <<>>)
        /\ weighted_ends \in {0, 10} => (pc = "returned" /\ Len(ret) = Len(arrays))

\* a rejected call on a batch whose first array would have drawn the warning
C8_Witness ==
    /\ pc = "raised"
    /\ weighted_ends = 11
    /\ ens = "None"
    /\ arrays[1].ensemble \notin Ensembles
    /\ stdout = <<>>

Unrecognized(i) == Case0(arrays[i], ens) \notin Ensembles

Warned(i) == \E l \in 1..Len(stdout) : stdout[l].at = i

\* C9 as stated: an array with an unrecognized identifier is shifted by zero
\* steps, is warned about, and the rest of the batch is processed, for every
\* daily and custom.
C9_UnrecognizedUnshifted ==
    pc = "returned" =>
        /\ Len(array) = Len(arrays)
        /\ \A i \in 1..Len(arrays) :
               Unrecognized(i) => (ValuesFollow(array[i], i, 0) /\ Warned(i))

\* C9 amended: an array with an unrecognized identifier is shifted by zero
\* steps when custom is 0 and by custom steps otherwise (the custom shift
\* overrides the table for every array); in both cases the warning is printed
\* for it and every array of the batch is processed and returned.
C9_UnrecognizedZeroOrCustom ==
    pc = "returned" =>
        /\ Len(array) = Len(arrays)
        /\ Len(ret) = Len(arrays)
        /\ \A i \in 1..Len(arrays) :
               Unrecognized(i) => (ValuesFollow(array[i], i, custom) /\ Warned(i))

\* an unrecognized first array passes unshifted beside a shifted second one
C9_Witness ==
    /\ pc = "returned"
    /\ Len(arrays) = 2
    /\ custom = 0
    /\ Unrecognized(1) /\ ~Unrecognized(2)
    /\ Warned(1) /\ ~Warned(2)
    /\ array[1].data[1] = arrays[1].data[1]
    /\ array[2].data[1] # arrays[2].data[1]

----------------------------------------------------------------------------
(* Claims about mean_flatten                                               *)

\* C3: every result of mean_flatten carries the attrs of the input it was
\* made from, in the single-array form and in the list form, with and without
\* the latitude axis among the reduced axes.
C3_AttrsPreserved ==
    \A c \in 1..Len(m_calls) :
        /\ Len(m_calls[c].out) = Len(m_arrays)
        /\ \A i \in 1..Len(m_arrays) : m_calls[c].out[i].attrs = m_arrays[i].attrs

\* C10: mean_flatten leaves the caller's list of axis names as it was, and two
\* successive calls with that list, when it names the latitude axis, both take
\* the cosine-weighted latitude mean and reduce the same axes.
C10_DimsUntouched ==
    /\ dims = dims0
    /\ (Len(m_calls) >= 2 /\ ~dims_none /\ "lat" \in Elems(dims0)) =>
           /\ m_calls[1].include_lat /\ m_calls[2].include_lat
           /\ m_calls[1].reduced = m_calls[2].reduced
           /\ \A i \in 1..Len(m_arrays) :
                  /\ m_calls[1].out[i].latmean = "weighted"
                  /\ m_calls[2].out[i].latmean = "weighted"

----------------------------------------------------------------------------
(* Claims about remove_seasonality                                         *)

\* C4: for every series length n the inverse transform has n values and all n
\* values of the array are overwritten with it, the coordinates and the attrs
\* being kept.
C4_FullLength ==
    /\ \A t \in 1..Len(f_trace) :
          /\ Len(f_trace[t].new_f_clean) = f_trace[t].n
          /\ f_trace[t].after = f_trace[t].new_f_clean
    /\ f_pc = "returned" =>
          \A i \in 1..Len(f_ret) :
             f_ret[i].time = f_arrays[i].time /\ f_ret[i].attrs = f_arrays[i].attrs

\* C5: the spectrum is modified exactly when some bin lies strictly inside the
\* band, whichever bins those are: then no warning is printed and every in-band
\* bin holds the interpolation between the values just below and just above the
\* band (where the band has a bin below it), the other bins being kept; with no
\* bin in the band the warning is printed and the spectrum is kept.
C5_BandFilter ==
    \A t \in 1..Len(f_trace) :
        LET e == f_trace[t]
        IN IF e.idx # {}
           THEN /\ ~e.warned
                /\ \A k \in 0..(Len(e.yf) - 1) : k \notin e.idx => e.yf_clean[k + 1] = e.yf[k + 1]
                /\ SetMin(e.idx) >= 1 =>
                      \A k \in e.idx :
                         e.yf_clean[k + 1] =
                            Linspace(e.yf[SetMin(e.idx)], e.yf[SetMax(e.idx) + 2],
                                     Cardinality(e.idx))[k - SetMin(e.idx) + 1]
           ELSE e.warned /\ e.yf_clean = e.yf

\* C6: a second application with the same freq and radius returns the series
\* the first application returned, whenever the band holds a bin.
C6_Idempotent ==
    (Len(f_vals) = 2 /\ \A t \in 1..Len(f_vals[1]) : f_trace[t].idx # {}) =>
        f_vals[2] = f_vals[1]

\* C7: after a call every array the caller passed holds the values it held
\* before, and no returned array shares its buffer with an array passed.
C7_InputsUntouched ==
    f_pc = "returned" =>
        /\ \A i \in 1..Len(f_arrays) : heap[f_arrays[i].buf] = f_in0[f_arrays[i].buf]
        /\ \A i \in 1..Len(f_ret) : \A j \in 1..Len(f_arrays) :
              f_ret[i].buf # f_arrays[j].buf

====
